---- MODULE Spec2Model ----
(***************************************************************************)
(* A model of the two chat applications of react-suspence-chat-app:        *)
(*   - src/src/App.tsx        the non-streaming variant (variant = "App")   *)
(*   - src/src/Streaming.tsx  the streaming variant (variant = "Streaming") *)
(* The message log holds Message values and Promise<Message> references;   *)
(* the promises, the timers, the ReadableStreams with their tee branches   *)
(* and the readers of readFromStream are the rest of the state.  `view`    *)
(* is what React has committed to the screen for each entry of the log.    *)
(***************************************************************************)
EXTENDS Naturals, Sequences, FiniteSets, TLC

\* ------------------------------------------------------------------ bounds

\* The number of submissions (handleSubmit calls) explored.
MaxSubmits == 2
\* The number of leading words of `lorem` the synthetic stream is cut to.
NumWords == 2
\* The largest value of the millisecond clock read by Date.now().
MaxClock == 1

\* --------------------------------------------------------------- constants

\* Math.random() in tenths; fetchResponse rejects when random < 0.5.
FailThreshold == 5
Randoms == {0, 4, 5, 9}

\* What the user can type into the text input.
Inputs == {"", " ", "hello"}

\* The words of the text of fetchStreamingResponse.
LoremWords ==
  << "Lorem,", "ipsum", "dolor", "sit", "amet", "consectetur", "adipisicing",
     "elit.", "Repellat,", "odit", "sequi", "quibusdam", "delectus", "sapiente",
     "nesciunt", "cupiditate", "expedita", "tempora", "error", "nam",
     "inventore,", "odio", "fuga", "aperiam", "eaque", "quaerat", "veritatis",
     "asperiores", "vero", "voluptatem." >>

\* `lorem` as its tokens (a word or a single space), cut to NumWords words.
lorem ==
  [i \in 1..(2 * NumWords - 1) |->
     IF i % 2 = 1 THEN LoremWords[(i + 1) \div 2] ELSE " "]

\* String.prototype.split(" ") over tokens: the pieces between separators.
RECURSIVE SplitFrom(_, _, _)
SplitFrom(text, cur, acc) ==
  IF text = <<>> THEN Append(acc, cur)
  ELSE IF Head(text) = " " THEN SplitFrom(Tail(text), "", Append(acc, cur))
  ELSE SplitFrom(Tail(text), cur \o Head(text), acc)

split(text) == SplitFrom(text, "", <<>>)

\* ------------------------------------------------------------------- state

VARIABLES
  variant,    \* which App component is mounted: "App" or "Streaming"
  input,      \* useState("") : the text input
  messages,   \* useState([]) : the log, Message values and Promise references
  promises,   \* the Promise<Message> objects, by submission number
  view,       \* the committed display state of every entry of the log
  timers,     \* App.tsx: the pending setTimeout callbacks of fetchResponse
  responses,  \* App.tsx: the Promise<string> of each fetchResponse call
  fetched,    \* the arguments of every backing call made so far
  streams,    \* Streaming.tsx: the stream of each submission and its tee
  stream,     \* Streaming.tsx: useState<ReadableStream>(), 0 = undefined
  loading,    \* Streaming.tsx: the `content` state of each MessageLoading
  now         \* the clock Date.now() reads

vars ==
  << variant, input, messages, promises, view, timers, responses, fetched,
     streams, stream, loading, now >>

\* ----------------------------------------------------------------- promises

NoValue == [from |-> "none", content |-> "none"]
NoError == [isError |-> FALSE, message |-> "none"]

PendingPromise == [state |-> "pending", value |-> NoValue, reason |-> NoError]
Fulfilled(v) == [state |-> "fulfilled", value |-> v, reason |-> NoError]
Rejected(e) == [state |-> "rejected", value |-> NoValue, reason |-> e]

\* new Error(message)
Error(message) == [isError |-> TRUE, message |-> message]

\* ------------------------------------------------------------- log entries

MessageEntry(m) == [type |-> "Message", msg |-> m, ref |-> 0]
PromiseEntry(k) == [type |-> "Promise", msg |-> NoValue, ref |-> k]

\* The index in the log of the promise of submission k.
EntryOf(msgs, k) == CHOOSE i \in 1..Len(msgs) : msgs[i] = PromiseEntry(k)

\* ---------------------------------------------------------------- rendering

\* A per-entry boundary is missing: one rejection takes every entry down.
MessageViewNoBoundary(message, proms, old) ==
  IF \E k \in 1..Len(proms) : proms[k].state = "rejected" THEN "Settled-Error"
  ELSE IF message.type = "Message" THEN "Resolved"
  ELSE IF proms[message.ref].state = "pending" THEN "Pending"
  ELSE "Settled-Ok"

\* One entry of the log under its own ErrorBoundary and Suspense: a boundary
\* that caught an error keeps showing it; MessageComponent / MessageRenderer
\* passes a Message through and hands a Promise to use().
MessageView(message, proms, old) ==
  IF old = "Settled-Error" THEN "Settled-Error"
  ELSE IF message.type = "Message" THEN "Resolved"
  ELSE IF proms[message.ref].state = "pending" THEN "Pending"
  ELSE IF proms[message.ref].state = "rejected" THEN "Settled-Error"
  ELSE "Settled-Ok"

\* messages.map(...): one render pass over the log.
Render(msgs, proms, old) ==
  [i \in 1..Len(msgs) |->
     MessageView(msgs[i], proms, IF i <= Len(old) THEN old[i] ELSE "Unmounted")]

\* Whether the Suspense fallback of submission k (its MessageLoading) is
\* mounted.
Mounted(msgs, vw, k) == vw[EntryOf(msgs, k)] = "Pending"

\* A fallback that is no longer shown is unmounted and its state is dropped.
Unmount(contents, msgs, vw) ==
  [k \in 1..Len(contents) |->
     IF Mounted(msgs, vw, k) THEN contents[k] ELSE ""]

\* MessageError of App.tsx: the text of the fallback of a failed entry.
MessageError(error) ==
  IF error.isError THEN error.message ELSE "Unknown error"

\* ErrorRenderer of Streaming.tsx.
ErrorRenderer(error) ==
  IF error.isError THEN error.message ELSE "Something went wrong"

\* What the screen shows for entry i of the log: the message, the Suspense
\* fallback (MessageLoading), or the fallback of the ErrorBoundary.
Display(i) ==
  LET m == messages[i]
      p == promises[m.ref]
  IN CASE view[i] = "Resolved" ->
            [kind |-> "message", from |-> m.msg.from, text |-> m.msg.content]
       [] view[i] = "Settled-Ok" ->
            [kind |-> "message", from |-> p.value.from,
             text |-> p.value.content]
       [] view[i] = "Settled-Error" ->
            [kind |-> "error", from |-> "none",
             text |-> IF variant = "App" THEN MessageError(p.reason)
                      ELSE ErrorRenderer(p.reason)]
       [] view[i] = "Pending" ->
            IF variant = "App" \/ stream = 0
              THEN [kind |-> "loading", from |-> "none", text |-> "Loading..."]
              ELSE [kind |-> "loading", from |-> "bot",
                    text |-> loading[m.ref]]

\* -------------------------------------------------------------------- Init

Init ==
  /\ variant \in {"App", "Streaming"}
  /\ input = ""
  /\ messages = <<>>
  /\ promises = <<>>
  /\ view = <<>>
  /\ timers = {}
  /\ responses = <<>>
  /\ fetched = <<>>
  /\ streams = <<>>
  /\ stream = 0
  /\ loading = <<>>
  /\ now = 0

\* ------------------------------------------------------- App.tsx operations

\* A swapped pair: the pending entry lands before the user's message.
setMessagesSwapped(msgs, first, second) == msgs \o << second, first >>

\* The spread is forgotten: the new pair replaces the log.
setMessagesReplacing(msgs, first, second) == << first, second >>

\* setMessages((messages) => [...messages, question, response]), and the same
\* update with userMessage and botMessage in Streaming.tsx.
setMessages(msgs, first, second) == msgs \o << first, second >>

\* A catch added to the chain: a rejection is mapped to a Message.
thenCaught(p, message) == Fulfilled(message)

\* fetchResponse's timer callback: the outcome for one draw of Math.random().
fetchResponse(question, random) ==
  IF random < FailThreshold THEN Rejected(Error("Something went wrong"))
  ELSE Fulfilled(question)

\* promise.then(onFulfilled): a rejection passes through unchanged.
then(p, message) ==
  IF p.state = "fulfilled" THEN Fulfilled(message) ELSE p

\* handleInputChange: setInput(e.target.value), and the re-render it causes.
handleInputChange ==
  /\ \E text \in Inputs \ {input} : input' = text
  /\ view' = Render(messages, promises, view)
  /\ loading' = Unmount(loading, messages, view')
  /\ UNCHANGED << variant, messages, promises, timers, responses, fetched,
                  streams, stream, now >>

\* handleSubmit of App.tsx.
handleSubmit ==
  /\ variant = "App"
  /\ Len(promises) < MaxSubmits
  /\ LET question ==
           [from |-> "user", messageId |-> "1", sessionId |-> "1",
            content |-> input]
         k == Len(promises) + 1
     IN /\ fetched' = Append(fetched, input)
        /\ timers' = timers \cup {[p |-> k, question |-> input]}
        /\ responses' = Append(responses, PendingPromise)
        /\ promises' = Append(promises, PendingPromise)
        /\ messages' =
             setMessages(messages, MessageEntry(question), PromiseEntry(k))
        /\ view' = Render(messages', promises', view)
  /\ UNCHANGED << variant, input, streams, stream, loading, now >>

\* The setTimeout callback of fetchResponse fires, and the .then of
\* handleSubmit maps the string to the assistant Message.
fetchResponseTimeout ==
  \E t \in timers, random \in Randoms :
    LET raw == fetchResponse(t.question, random)
        response ==
          [from |-> "assistant", content |-> raw.value, sessionId |-> "1",
           messageId |-> "2"]
    IN /\ timers' = timers \ {t}
       /\ responses' = [responses EXCEPT ![t.p] = raw]
       /\ promises' = [promises EXCEPT ![t.p] = then(raw, response)]
       /\ UNCHANGED << variant, input, messages, view, fetched, streams,
                       stream, loading, now >>

\* The backing call is made while rendering: every render starts another.
RerenderRefetching ==
  /\ Len(fetched) <= MaxSubmits
  /\ view' = Render(messages, promises, view)
  /\ loading' = Unmount(loading, messages, view')
  /\ fetched' = Append(fetched, input)
  /\ UNCHANGED << variant, input, messages, promises, timers, responses,
                  streams, stream, now >>

\* React re-renders the log (a settled promise pinged it, or any update).
Rerender ==
  /\ view' = Render(messages, promises, view)
  /\ loading' = Unmount(loading, messages, view')
  /\ UNCHANGED << variant, input, messages, promises, timers, responses,
                  fetched, streams, stream, now >>

\* ------------------------------------------------- Streaming.tsx operations

\* A single shared cursor: the chunk reaches view 2 only.
teeEnqueueShared(s, chunk) == [s EXCEPT !.queue2 = Append(@, chunk)]

\* stream.tee(): the tee reads its source as long as a branch asks for more,
\* and view 2 has the aggregator waiting on it from the start, so a chunk the
\* source enqueues is handed to the queue of both branches.
teeEnqueue(s, chunk) ==
  [s EXCEPT !.queue1 = Append(@, chunk), !.queue2 = Append(@, chunk)]

\* The source closed: both branches close (after what they still hold).
teeClose(s) == [s EXCEPT !.branches = "closed"]

\* The source errored: both branches error, which drops what they still hold.
teeError(s) ==
  [s EXCEPT !.branches = "errored", !.queue1 = <<>>, !.queue2 = <<>>]

\* The stream fetchStreamingResponse returns, as handleSubmit leaves it:
\* start() has run up to its first await, so the first chunk (with its
\* trailing space) is enqueued; stream.tee() made the two branches (view 1
\* for the renderer, view 2 for the aggregator) and readFromStream(stream2,
\* onData) took the reader of view 2.
fetchStreamingResponse(message) ==
  LET chunks == split(lorem)
  IN teeEnqueue([ chunks   |-> chunks,
                  emitted  |-> 1,
                  srcState |-> "readable",
                  branches |-> "readable",
                  queue1   |-> <<>>,
                  queue2   |-> <<>>,
                  locked1  |-> FALSE,
                  reader1  |-> 0,
                  threw1   |-> FALSE,
                  locked2  |-> TRUE,
                  text     |-> "",
                  seen1    |-> <<>>,
                  seen2    |-> <<>>,
                  end1     |-> "none",
                  end2     |-> "none",
                  failure  |-> NoError ],
                chunks[1] \o " ")

\* stream.getReader() of readFromStream on view 1, for the MessageLoading of
\* submission m: it locks the view to the new reader, and on a view that is
\* already locked it throws a TypeError and leaves the reader that holds
\* the lock alone.
getReader(s, m) ==
  IF s.locked1 THEN [s EXCEPT !.threw1 = TRUE]
  ELSE [s EXCEPT !.locked1 = TRUE, !.reader1 = m]

\* The effect without its stream.locked test.
MessageLoadingEffectUnguarded(strs, s, m) ==
  IF s = 0 THEN strs ELSE [strs EXCEPT ![s] = getReader(@, m)]

\* The effect of one MessageLoading (submission m) for the stream prop s:
\* nothing when the stream is undefined or locked, else readFromStream takes
\* the reader of view 1 and feeds this instance's setContent.
MessageLoadingEffect(strs, s, m) ==
  IF s = 0 \/ strs[s].locked1 THEN strs
  ELSE [strs EXCEPT ![s] = getReader(@, m)]

\* The effects of one commit, in the order of the entries of the log: every
\* mounted MessageLoading whose `stream` prop changed, or that just mounted.
RECURSIVE RunEffects(_, _, _, _, _)
RunEffects(strs, msgs, vw, s, m) ==
  IF m > Len(strs) THEN strs
  ELSE RunEffects(IF Mounted(msgs, vw, m)
                    THEN MessageLoadingEffect(strs, s, m) ELSE strs,
                  msgs, vw, s, m + 1)

\* handleSubmit of Streaming.tsx, with the commit and the effects it causes.
handleSubmitStreaming ==
  /\ variant = "Streaming"
  /\ Len(promises) < MaxSubmits
  /\ LET userMessage ==
           [id |-> ToString(now), from |-> "user", content |-> input]
         k == Len(promises) + 1
     IN /\ fetched' = Append(fetched, input)
        /\ stream' = k
        /\ promises' = Append(promises, PendingPromise)
        /\ messages' =
             setMessages(messages, MessageEntry(userMessage), PromiseEntry(k))
        /\ view' = Render(messages', promises', view)
        /\ loading' = Unmount(Append(loading, ""), messages', view')
        /\ streams' =
             RunEffects(Append(streams, fetchStreamingResponse(input)),
                        messages', view', stream', 1)
  /\ UNCHANGED << variant, input, timers, responses, now >>

\* The loop of start() is left one chunk early.
startTimeoutOffByOne(k) ==
  /\ streams[k].srcState = "readable"
  /\ LET s == streams[k]
     IN streams' =
          IF s.emitted + 1 < Len(s.chunks)
            THEN [streams EXCEPT
                    ![k] = teeEnqueue([s EXCEPT !.emitted = @ + 1],
                                      s.chunks[s.emitted + 1] \o " ")]
            ELSE [streams EXCEPT
                    ![k] = teeClose([s EXCEPT !.srcState = "closed"])]
  /\ UNCHANGED << variant, input, messages, promises, view, timers,
                  responses, fetched, stream, loading, now >>

\* The 200 ms timer of start() fires: the loop enqueues the next chunk, or,
\* after the last one, closes the controller.
startTimeout(k) ==
  /\ streams[k].srcState = "readable"
  /\ LET s == streams[k]
     IN streams' =
          IF s.emitted < Len(s.chunks)
            THEN [streams EXCEPT
                    ![k] = teeEnqueue([s EXCEPT !.emitted = @ + 1],
                                      s.chunks[s.emitted + 1] \o " ")]
            ELSE [streams EXCEPT
                    ![k] = teeClose([s EXCEPT !.srcState = "closed"])]
  /\ UNCHANGED << variant, input, messages, promises, view, timers,
                  responses, fetched, stream, loading, now >>

\* What reader.read() settles with on a view: a queued chunk first, then the
\* end of a closed view, or the error of an errored one; "wait" while neither.
read(queue, state) ==
  IF queue # <<>> THEN "value"
  ELSE IF state = "closed" THEN "done"
  ELSE IF state = "errored" THEN "error"
  ELSE "wait"

\* How the promise of readFromStream settles once its loop is left: the break
\* on done fulfils it, and the catch block logs a read error and swallows it;
\* in both cases finally releases the lock.
readFromStream(result) ==
  IF result = "done" THEN "fulfilled"
  ELSE IF result = "error" THEN "fulfilled"
  ELSE "pending"

\* The .then that resolves botMessage is missing.
botMessageNeverResolved(outcome, message) == PendingPromise

\* botMessage of handleSubmit (Streaming.tsx): new Promise((resolve) => ...)
\* resolves in the
\* .then of readFromStream, and has no reject path.
botMessage(outcome, message) ==
  IF outcome = "fulfilled" THEN Fulfilled(message) ELSE PendingPromise

\* The chunk is put in front of the text instead of after it.
onDataPrepend(text, chunk) == chunk \o text

\* onData of handleSubmit: text += chunk.
onData(text, chunk) == text \o chunk

\* One turn of the loop of readFromStream(stream2, onData) in handleSubmit.
aggregatorRead(k) ==
  /\ streams[k].locked2
  /\ LET s == streams[k]
         result == read(s.queue2, s.branches)
     IN /\ result # "wait"
        /\ IF result = "value"
             THEN /\ streams' = [streams EXCEPT
                                   ![k].queue2 = Tail(@),
                                   ![k].text = onData(@, Head(s.queue2)),
                                   ![k].seen2 = Append(@, Head(s.queue2))]
                  /\ UNCHANGED promises
             ELSE /\ streams' = [streams EXCEPT
                                   ![k].locked2 = FALSE,
                                   ![k].end2 =
                                     IF result = "done" THEN "End" ELSE "Error"]
                  /\ promises' =
                       [promises EXCEPT ![k] =
                          botMessage(readFromStream(result),
                                     [id |-> ToString(now),
                                      from |-> "assistant",
                                      content |-> s.text])]
  /\ UNCHANGED << variant, input, messages, view, timers, responses, fetched,
                  stream, loading, now >>

\* One turn of the loop of readFromStream(stream, ...) started by the effect
\* of MessageLoading: setContent appends the chunk to the instance that
\* started the read (a no-op once that instance is unmounted).
rendererRead(k) ==
  /\ streams[k].locked1
  /\ LET s == streams[k]
         result == read(s.queue1, s.branches)
     IN /\ result # "wait"
        /\ IF result = "value"
             THEN /\ streams' = [streams EXCEPT
                                   ![k].queue1 = Tail(@),
                                   ![k].seen1 = Append(@, Head(s.queue1))]
                  /\ loading' =
                       IF Mounted(messages, view, s.reader1)
                         THEN [loading EXCEPT
                                 ![s.reader1] = @ \o Head(s.queue1)]
                         ELSE loading
             ELSE /\ streams' = [streams EXCEPT
                                   ![k].locked1 = FALSE,
                                   ![k].reader1 = 0,
                                   ![k].end1 =
                                     IF result = "done" THEN "End" ELSE "Error"]
                  /\ UNCHANGED loading
  /\ UNCHANGED << variant, input, messages, promises, view, timers,
                  responses, fetched, stream, now >>

\* Time passes: Date.now() reads a later millisecond.
Tick ==
  /\ now < MaxClock
  /\ now' = now + 1
  /\ UNCHANGED << variant, input, messages, promises, view, timers,
                  responses, fetched, streams, stream, loading >>

\* The underlying source reports a failure: controller.error(e).  The
\* synthetic source of fetchStreamingResponse never does; this step is taken
\* only under SpecSourceFailure.
sourceError(k) ==
  /\ streams[k].srcState = "readable"
  /\ streams' =
       [streams EXCEPT ![k] = teeError([streams[k] EXCEPT
                                          !.srcState = "errored",
                                          !.failure = Error("stream failed")])]
  /\ UNCHANGED << variant, input, messages, promises, view, timers,
                  responses, fetched, stream, loading, now >>

\* -------------------------------------------------------------------- Next

Next ==
  \/ handleInputChange
  \/ handleSubmit
  \/ fetchResponseTimeout
  \/ Rerender
  \/ handleSubmitStreaming
  \/ \E k \in 1..Len(streams) : startTimeout(k)
  \/ \E k \in 1..Len(streams) : aggregatorRead(k)
  \/ \E k \in 1..Len(streams) : rendererRead(k)
  \/ Tick

Spec == Init /\ [][Next]_vars

\* The non-streaming variant alone.
InitApp == Init /\ variant = "App"

NextApp ==
  \/ handleInputChange
  \/ handleSubmit
  \/ fetchResponseTimeout
  \/ Rerender

SpecApp == InitApp /\ [][NextApp]_vars

\* The streaming variant with a source that may fail mid-stream.
InitSourceFailure == Init /\ variant = "Streaming"

NextSourceFailure ==
  \/ handleSubmitStreaming
  \/ Rerender
  \/ \E k \in 1..Len(streams) : startTimeout(k)
  \/ \E k \in 1..Len(streams) : sourceError(k)
  \/ \E k \in 1..Len(streams) : aggregatorRead(k)
  \/ \E k \in 1..Len(streams) : rendererRead(k)

SpecSourceFailure == InitSourceFailure /\ [][NextSourceFailure]_vars

\* The event loop: a timer that is due fires, and a read whose result is
\* there returns to the aggregator.
EventLoop ==
  \/ fetchResponseTimeout
  \/ \E k \in 1..Len(streams) : startTimeout(k)
  \/ \E k \in 1..Len(streams) : aggregatorRead(k)

\* The event loop does not stop while it has work.  The user, the clock, the
\* renderer and the reader of view 1 are under no obligation.
Fairness == WF_vars(EventLoop)

FairSpec == Init /\ [][Next]_vars /\ Fairness

\* ------------------------------------------------------------------ claims

\* An empty or whitespace-only text.
IsBlank(text) == text \in {"", " "}

\* A step that is a submission: it starts a backing call.
Submitted == Len(fetched') = Len(fetched) + 1

\* The log is a sequence of pairs: the user message of submission k, then
\* the promise of submission k.
Paired(msgs, calls) ==
  /\ Len(msgs) = 2 * Len(calls)
  /\ \A k \in 1..Len(calls) :
       /\ msgs[2 * k - 1].type = "Message"
       /\ msgs[2 * k - 1].msg.from = "user"
       /\ msgs[2 * k - 1].msg.content = calls[k]
       /\ msgs[2 * k] = PromiseEntry(k)

\* C1: a submission of a non-empty text appends exactly two entries to the
\* log, the user message carrying the text and then the pending assistant
\* entry of that submission, and after n such submissions the log is n such
\* pairs; in both variants.
C1_SubmitAppendsUserThenPending ==
  [][ (Submitted /\ ~IsBlank(input)) =>
        /\ Len(messages') = Len(messages) + 2
        /\ SubSeq(messages', 1, Len(messages)) = messages
        /\ messages'[Len(messages) + 1].type = "Message"
        /\ messages'[Len(messages) + 1].msg.from = "user"
        /\ messages'[Len(messages) + 1].msg.content = input
        /\ messages'[Len(messages) + 2] = PromiseEntry(Len(promises'))
        /\ promises'[Len(promises')].state = "pending"
        /\ ((\A k \in 1..Len(fetched') : ~IsBlank(fetched'[k]))
              => Paired(messages', fetched')) ]_vars

C1_Witness ==
  /\ variant = "Streaming"
  /\ fetched = << "hello", "hello" >>
  /\ Len(messages) = 4
  /\ promises[1].state = "pending"
  /\ promises[2].state = "pending"

\* C2: submitting an empty or whitespace-only text leaves the log unchanged
\* and starts no backing call.
C2_BlankSubmitAppendsNothing ==
  [][ IsBlank(input) => (messages' = messages /\ fetched' = fetched) ]_vars

\* The concatenation of the fragments of the source, each with its space.
RECURSIVE Concatenated(_, _)
Concatenated(words, n) ==
  IF n = 0 THEN "" ELSE Concatenated(words, n - 1) \o words[n] \o " "

\* C3: when the source of a submission has completed, the promise of its
\* entry is resolved with an assistant message whose content is all the
\* fragments in emission order, trailing spaces kept; until then it is
\* pending.
C3_AggregatorConcatenates ==
  variant = "Streaming" =>
    \A k \in 1..Len(streams) :
      IF streams[k].end2 = "End"
        THEN /\ promises[k].state = "fulfilled"
             /\ promises[k].value.from = "assistant"
             /\ promises[k].value.content = Concatenated(LoremWords, NumWords)
        ELSE promises[k].state = "pending"

C3_Witness ==
  /\ Len(streams) = 2
  /\ streams[2].reader1 = 1
  /\ streams[1].end2 = "End"
  /\ streams[2].end2 = "End"
  /\ promises[2].state = "fulfilled"

\* C4: a source that fails mid-stream makes the promise of its entry reject
\* with the error the source reported.
C4_SourceFailureRejects ==
  \A k \in 1..Len(streams) :
    (streams[k].srcState = "errored" /\ ~streams[k].locked2)
      => promises[k] = Rejected(streams[k].failure)

\* The display state an entry has by its own message or promise alone.
OwnOutcome(msgs, proms, i) ==
  IF msgs[i].type = "Message" THEN "Resolved"
  ELSE IF proms[msgs[i].ref].state = "pending" THEN "Pending"
  ELSE IF proms[msgs[i].ref].state = "fulfilled" THEN "Settled-Ok"
  ELSE "Settled-Error"

\* C5: the step in which a promise is rejected changes neither the log, nor
\* any other promise, nor what any entry displays; and an entry displays an
\* error only when its own promise was rejected, whatever its siblings did.
C5_FailureIsIsolated ==
  [][ /\ \A k \in 1..Len(promises) :
           (promises[k].state = "pending" /\ promises'[k].state = "rejected")
             => /\ messages' = messages
                /\ view' = view
                /\ \A j \in 1..Len(promises) \ {k} : promises'[j] = promises[j]
      /\ \A i \in 1..Len(view') :
           /\ view'[i] = "Settled-Error"
                => OwnOutcome(messages', promises', i) = "Settled-Error"
           /\ view'[i] \in {"Resolved", "Settled-Ok"}
                => OwnOutcome(messages', promises', i) = view'[i] ]_vars

C5_Witness ==
  /\ Len(view) = 4
  /\ view[2] = "Settled-Error"
  /\ view[4] \in {"Pending", "Settled-Ok"}
  /\ view[1] = "Resolved"

\* The fragments the source of a stream has emitted so far.
Emitted(s) == [i \in 1..s.emitted |-> LoremWords[i] \o " "]

\* C6: each view of a tee'd stream holds, read and unread together, exactly
\* the fragments the source emitted, in order, whatever the other view has
\* read; a view that reaches its end has seen all of them and ends as the
\* source did.
C6_BothViewsSeeAllFragments ==
  variant = "Streaming" =>
    \A k \in 1..Len(streams) :
      LET s == streams[k]
      IN /\ s.seen1 \o s.queue1 = Emitted(s)
         /\ s.seen2 \o s.queue2 = Emitted(s)
         /\ s.end1 \in {"none", "End"}
         /\ s.end2 \in {"none", "End"}
         /\ s.end1 = "End" =>
              (s.srcState = "closed" /\ Len(s.seen1) = NumWords)
         /\ s.end2 = "End" =>
              (s.srcState = "closed" /\ Len(s.seen2) = NumWords)

C6_Witness ==
  /\ Len(streams) = 2
  /\ streams[1].end1 = "End"
  /\ streams[1].end2 = "End"
  /\ streams[2].end2 = "End"
  /\ streams[2].seen1 = <<>>

\* C7: every promise of the log has exactly one backing call, made by the
\* step that appended it, and no other step starts one; a settled promise
\* holds a message or an error, never both, and neither it nor the settled
\* display of its entry ever changes again.
C7_OneAttemptSettledOnce ==
  [][ /\ Len(fetched') = Len(promises')
      /\ Len(messages') = 2 * Len(promises')
      /\ fetched' # fetched => Len(messages') = Len(messages) + 2
      /\ \A k \in 1..Len(promises) :
           /\ promises[k].state # "pending" => promises'[k] = promises[k]
           /\ promises[k].state = "fulfilled" => promises[k].reason = NoError
           /\ promises[k].state = "rejected" => promises[k].value = NoValue
      /\ \A i \in 1..Len(view) :
           view[i] \in {"Settled-Ok", "Settled-Error"} => view'[i] = view[i]
    ]_vars

C7_Witness ==
  /\ variant = "App"
  /\ Len(view) = 4
  /\ view[2] = "Settled-Error"
  /\ view[4] = "Settled-Ok"
  /\ input = "hello"

\* C8: every pending entry eventually settles, in both variants, also when
\* view 1 of its stream is never read.
C8_PendingEventuallySettles ==
  \A k \in 1..MaxSubmits :
    (k <= Len(promises))
      ~> (k <= Len(promises) /\ promises[k].state # "pending")

C8_Witness ==
  /\ Len(streams) = 2
  /\ streams[2].reader1 = 1
  /\ streams[2].seen1 = <<>>
  /\ streams[1].seen1 = <<>>
  /\ promises[1].state = "fulfilled"
  /\ promises[2].state = "fulfilled"

\* C9: in the non-streaming variant, with no failure drawn, the submission of
\* "hello" resolves to the canned reply "I don't know".
C9_CannedReply ==
  variant = "App" =>
    \A k \in 1..Len(promises) :
      (fetched[k] = "hello" /\ promises[k].state = "fulfilled")
        => promises[k].value.content = "I don't know"

\* A thrown value that is not an Error.
NotAnError == [isError |-> FALSE, message |-> "oops"]

\* C10: in the non-streaming variant a failed backing call rejects the
\* promise of the entry with that same error, never a Message, and the entry
\* displays the error's message; a thrown value that is no Error displays
\* the generic text.
C10_FailurePropagatesAndShows ==
  variant = "App" =>
    /\ \A k \in 1..Len(promises) :
         responses[k].state = "rejected" =>
           /\ responses[k].reason = Error("Something went wrong")
           /\ promises[k] = Rejected(responses[k].reason)
    /\ \A i \in 1..Len(view) :
         view[i] = "Settled-Error" =>
           Display(i) = [kind |-> "error", from |-> "none",
                         text |-> "Something went wrong"]
    /\ MessageError(NotAnError) = "Unknown error"

C10_Witness ==
  /\ variant = "App"
  /\ Len(view) = 2
  /\ view[2] = "Settled-Error"
  /\ responses[1].state = "rejected"
  /\ promises[1].state = "rejected"

\* C11: in the streaming variant the placeholder of a pending entry shows a
\* prefix of the fragments its own source has emitted so far, in emission
\* order, and view 1 of a submission's stream is read for that submission's
\* placeholder only; also with two submissions pending at once.
C11_PlaceholderMatchesOwnSource ==
  variant = "Streaming" =>
    /\ \A i \in 1..Len(view) :
         view[i] = "Pending" =>
           LET k == messages[i].ref
           IN loading[k] \in
                {Concatenated(LoremWords, n) : n \in 0..streams[k].emitted}
    /\ \A k \in 1..Len(streams) : streams[k].reader1 \in {0, k}

\* C12: the log is append-only: every step leaves the earlier log as a prefix
\* of the later one, the promise of submission k stays at position 2k
\* whatever the order in which promises settle, and the screen has one
\* position per entry of the log.
C12_LogIsAppendOnly ==
  [][ /\ Len(messages') >= Len(messages)
      /\ SubSeq(messages', 1, Len(messages)) = messages
      /\ \A k \in 1..Len(promises') : messages'[2 * k] = PromiseEntry(k)
      /\ Len(view') = Len(messages') ]_vars

C12_Witness ==
  /\ Len(messages) = 4
  /\ promises[1].state = "pending"
  /\ promises[2].state # "pending"
  /\ view[2] = "Pending"
  /\ view[4] = "Settled-Ok"

\* C13: the renderer attaches once per view: getReader is never called on a
\* locked view (no TypeError), a view is locked exactly while it has its one
\* reader and no later run of the effect displaces that reader; every
\* fragment of a view is read once, in order; and the accumulator of a
\* mounted placeholder is never reset: it stays as it is or grows by the
\* fragment its reader just took off a view.
C13_AttachOncePerSource ==
  [][ /\ \A k \in 1..Len(streams') :
           LET s == streams'[k]
           IN /\ ~s.threw1
              /\ s.locked1 <=> s.reader1 # 0
              /\ s.seen1 \o s.queue1 = Emitted(s)
      /\ \A k \in 1..Len(streams) :
           streams[k].reader1 # 0
             => streams'[k].reader1 \in {0, streams[k].reader1}
      /\ \A m \in 1..Len(loading) :
           (Mounted(messages, view, m) /\ Mounted(messages', view', m))
             => \/ loading'[m] = loading[m]
                \/ \E k \in 1..Len(streams) :
                     /\ streams[k].reader1 = m
                     /\ streams[k].queue1 # <<>>
                     /\ loading'[m] = loading[m] \o Head(streams[k].queue1)
                     /\ streams'[k].queue1 = Tail(streams[k].queue1)
                     /\ streams'[k].seen1 =
                          Append(streams[k].seen1, Head(streams[k].queue1))
    ]_vars

C13_Witness ==
  /\ Len(streams) = 2
  /\ view[2] = "Pending"
  /\ view[4] = "Pending"
  /\ streams[2].reader1 = 1
  /\ ~streams[2].threw1
  /\ streams[2].seen1 = << "Lorem, " >>
  /\ streams[1].seen1 = << "Lorem, " >>
  /\ loading[2] = ""

\* The id a message carries: messageId in App.tsx, id in Streaming.tsx.
IdOf(m) == IF variant = "App" THEN m.messageId ELSE m.id

\* Whether entry i of the log holds a message: a user message, or a promise
\* that was resolved with the assistant's message.
HasMessage(i) ==
  \/ messages[i].type = "Message"
  \/ promises[messages[i].ref].state = "fulfilled"

\* The message entry i of the log holds.
MessageAt(i) ==
  IF messages[i].type = "Message" THEN messages[i].msg
  ELSE promises[messages[i].ref].value

\* C14: no two messages of the log, user messages and resolved assistant
\* messages alike, carry the same id.
C14_IdsAreUnique ==
  \A i, j \in 1..Len(messages) :
    (i # j /\ HasMessage(i) /\ HasMessage(j))
      => IdOf(MessageAt(i)) # IdOf(MessageAt(j))

\* The fragments view 2 of a stream was handed so far, read or not: what
\* the source enqueued, in the order it enqueued it.
Enqueued(s) == s.seen2 \o s.queue2

\* C15: the synthetic source emits the words of its text in their order,
\* each followed by a space, at most one per step of its timer; it completes
\* only after the last word, a completed source stays completed and emits
\* nothing more, and it never fails.
C15_SourceEmitsInOrderThenCompletes ==
  [][ \A k \in 1..Len(streams) :
        LET s == streams[k]
            t == streams'[k]
        IN /\ t.chunks = SubSeq(LoremWords, 1, NumWords)
           /\ t.srcState \in {"readable", "closed"}
           /\ t.failure = NoError
           /\ t.emitted \in {s.emitted, s.emitted + 1}
           /\ t.emitted = Len(Enqueued(t))
           /\ \A i \in 1..t.emitted : Enqueued(t)[i] = LoremWords[i] \o " "
           /\ SubSeq(Enqueued(t), 1, s.emitted) = Enqueued(s)
           /\ t.srcState = "closed" => t.emitted = NumWords
           /\ s.srcState = "closed" =>
                (t.srcState = "closed" /\ Enqueued(t) = Enqueued(s)) ]_vars

C15_Witness ==
  /\ Len(streams) = 2
  /\ streams[1].srcState = "closed"
  /\ streams[1].emitted = NumWords
  /\ streams[1].end2 = "End"
  /\ streams[2].srcState = "readable"
  /\ streams[2].emitted = 1
====
